---- MODULE Spec2Model ----
(***************************************************************************)
(* KORM (King of Rage Mountain) season processor of rffl-tools:            *)
(* src/src/rffl/core/korm_processor.py.                                    *)
(*                                                                         *)
(* The model follows process_korm_season step by step: the roster is read  *)
(* from week 1, the window is walked week by week (skip / early end /      *)
(* process_korm_week), then _assign_final_standings ranks the teams and    *)
(* the winner is looked up.                                                *)
(*                                                                         *)
(* Team codes are opaque strings in the source; here they are the numbers  *)
(* 1..n in the insertion order of the week-1 score dict, which is also the *)
(* iteration order of team_results.  Scores are floats in the source; here *)
(* they are small integers (only their order and their sums are used).     *)
(* Python's None is the value NoneVal.                                     *)
(***************************************************************************)
EXTENDS Integers, Sequences, FiniteSets, TLC

\* ---- bounds of the model -------------------------------------------------
MaxTeams == 5      \* largest week-1 roster
MaxScore == 3      \* scores are 1..MaxScore
EndWeek == 3       \* last week of the window (13 or 14 in SEASON_CONFIG)
InputBudget == 15  \* size of the largest score data, see ScoreRange
GapBudget == 33    \* size of the largest score data with gaps, see GapScoreRange
PairBudget == 4    \* size of the score data of each of two calls, see PairScoreRange
MaxRows == 2       \* most rows of a CSV file given to a loader
MaxRecorded == 3   \* most strikes a tracker holds, see RecordStrike
LiveBudget == 6    \* size of the score data of a call run to its end, see LiveInputs

\* ---- program constants ---------------------------------------------------
StartWeek == 1     \* SEASON_CONFIG[...]["weeks"][0]
TwoStrikeMin == 5  \* "2-strike" if active_count_start >= 5
NoneVal == 0       \* None (elimination_week, final_place, winner)

Scores == 1..MaxScore
Weeks == StartWeek..EndWeek
SeasonYears == {2024}

VARIABLES
    year,           \* argument of process_korm_season
    weekly_scores,  \* argument: week -> (team code -> score), both partial
    pc,             \* position in process_korm_season
    teams,          \* list(weekly_scores[1].keys())
    team_results,   \* team code -> KORMTeamResult
    week,           \* loop variable of "for week in range(start, end + 1)"
    week_results,   \* list of KORMWeekResult
    ended_early,
    winner,
    document,       \* the dict made by generate_korm_json (None before)
    peer,           \* the frame of a second call that is not running now
    rows,           \* the rows of the CSV file a loader reads (df)
    row,            \* index of the row the loader's loop is at
    tracker_teams,  \* KORMTracker.teams: team name -> KORMTeam
    live_mode       \* what the tracker's last strike-mode query computed

vars == <<year, weekly_scores, pc, teams, team_results, week, week_results,
          ended_early, winner, document, peer, rows, row,
          tracker_teams, live_mode>>

\* The value of peer when there is one call only.
NoFrame == [pc |-> "none"]

\* The value of live_mode before the tracker was asked for the strike mode.
NoAnswer == [active_count |-> NoneVal, strike_mode |-> "none",
             strikes_awarded |-> NoneVal]

\* ---- Python helpers ------------------------------------------------------

\* Tuple comparison a < b of two sort keys (sequences of integers).
LexLess(a, b) ==
    \/ \E i \in 1..Len(a) :
          /\ i <= Len(b)
          /\ a[i] < b[i]
          /\ \A j \in 1..(i - 1) : a[j] = b[j]
    \/ /\ Len(a) < Len(b)
       /\ \A j \in 1..Len(a) : a[j] = b[j]

\* sorted(..., key=...) is stable: an element goes before the first element
\* whose key is strictly greater.  Elements are records with a field "key".
RECURSIVE InsertByKey(_, _)
InsertByKey(x, s) ==
    IF s = <<>> THEN <<x>>
    ELSE IF LexLess(x.key, Head(s).key) THEN <<x>> \o s
    ELSE <<Head(s)>> \o InsertByKey(x, Tail(s))

RECURSIVE SortedByKey(_)
SortedByKey(s) ==
    IF s = <<>> THEN <<>>
    ELSE InsertByKey(s[Len(s)], SortedByKey(SubSeq(s, 1, Len(s) - 1)))

RECURSIVE SumOver(_, _)
\* sum(f[x] for x in S)
SumOver(f, S) ==
    IF S = {} THEN 0
    ELSE LET x == CHOOSE y \in S : TRUE
         IN  f[x] + SumOver(f, S \ {x})

\* ---- data model ----------------------------------------------------------

\* KORMTeamResult(team_code=team)
KORMTeamResult(code) ==
    [team_code |-> code, strikes |-> <<>>, status |-> "active",
     elimination_week |-> NoneVal, final_place |-> NoneVal, payout |-> 0]

\* KORMTeamResult.strike_count
strike_count(r) == Len(r.strikes)

\* Variant of ActiveCount: teams on notice are not counted.
ActiveCount_ActiveOnly(tr) ==
    Cardinality({c \in DOMAIN tr : tr[c].status = "active"})

\* sum(1 for r in team_results.values() if r.status != "eliminated")
ActiveCount(tr) ==
    Cardinality({c \in DOMAIN tr : tr[c].status # "eliminated"})

\* ---- process_korm_week ---------------------------------------------------

\* Variant of ActiveTeams: the status filter is dropped, every team of the
\* roster is taken.
ActiveTeams_All(tr, order) == order

\* Step 1: [code for code, result in team_results.items()
\*          if result.status != "eliminated"], in dict order.
ActiveTeams(tr, order) ==
    SelectSeq(order, LAMBDA c : tr[c].status # "eliminated")

\* {team: scores[team] for team in active_teams if team in scores}, as the
\* list of its items in insertion order.
ActiveScores(scores, active_teams) ==
    LET scored == SelectSeq(active_teams, LAMBDA c : c \in DOMAIN scores)
    IN  [i \in 1..Len(scored) |-> [team |-> scored[i], score |-> scores[scored[i]]]]

\* Variant of StrikeMode: the threshold of the live tracker (6 or more).
StrikeMode_AtLeastSix(active_count_start) ==
    IF active_count_start >= TwoStrikeMin + 1 THEN "2-strike" ELSE "1-strike"

\* Variant of StrikeMode: the comparison is the other way round.
StrikeMode_Reversed(active_count_start) ==
    IF active_count_start < TwoStrikeMin THEN "2-strike" ELSE "1-strike"

\* Step 2: "2-strike" if active_count_start >= 5 else "1-strike"
StrikeMode(active_count_start) ==
    IF active_count_start >= TwoStrikeMin THEN "2-strike" ELSE "1-strike"

\* strike_count = 2 if strike_mode == "2-strike" else 1
StrikesPerWeek(strike_mode) == IF strike_mode = "2-strike" THEN 2 ELSE 1

\* Step 3: sorted(active_scores.items(), key=lambda x: x[1])
SortedTeams(active_scores) ==
    LET keyed == [i \in 1..Len(active_scores) |->
                    [key |-> <<active_scores[i].score>>,
                     team |-> active_scores[i].team,
                     score |-> active_scores[i].score]]
        srt == SortedByKey(keyed)
    IN  [i \in 1..Len(srt) |-> [team |-> srt[i].team, score |-> srt[i].score]]

\* Variant of TeamsToStrike: the first per_week teams only, ties broken by
\* position.
TeamsToStrike_NoTies(sorted_teams, per_week) ==
    IF Len(sorted_teams) >= per_week
    THEN [i \in 1..per_week |-> sorted_teams[i].team]
    ELSE <<>>

\* Variant of TeamsToStrike: with fewer scored teams than per_week, the ones
\* that have a score are struck.
TeamsToStrike_Short(sorted_teams, per_week) ==
    IF Len(sorted_teams) >= per_week
    THEN LET threshold_score == sorted_teams[per_week].score
             hit == SelectSeq(sorted_teams,
                              LAMBDA e : e.score <= threshold_score)
         IN  [i \in 1..Len(hit) |-> hit[i].team]
    ELSE [i \in 1..Len(sorted_teams) |-> sorted_teams[i].team]

\* Step 4: every team at or below the score at index strike_count - 1
\* (per_week is the local strike_count of the source).
TeamsToStrike(sorted_teams, per_week) ==
    IF Len(sorted_teams) >= per_week
    THEN LET threshold_score == sorted_teams[per_week].score
             hit == SelectSeq(sorted_teams,
                              LAMBDA e : e.score <= threshold_score)
         IN  [i \in 1..Len(hit) |-> hit[i].team]
    ELSE <<>>

\* Step 5: sorted(active_scores.items(), key=lambda x: -x[1])
ScoresList(active_scores) ==
    LET keyed == [i \in 1..Len(active_scores) |->
                    [key |-> <<0 - active_scores[i].score>>,
                     team |-> active_scores[i].team,
                     score |-> active_scores[i].score]]
        srt == SortedByKey(keyed)
    IN  [i \in 1..Len(srt) |-> [team |-> srt[i].team, score |-> srt[i].score]]

\* Variant of StrikeTeam: eliminated only beyond two strikes (> instead of >=).
StrikeTeam_MoreThanTwo(result, wk, score) ==
    LET struck == [result EXCEPT
                     !.strikes = Append(@, [week |-> wk, score |-> score])]
    IN  IF strike_count(struck) > 2
        THEN [result |-> [struck EXCEPT !.status = "eliminated",
                                        !.elimination_week = wk],
              eliminated |-> TRUE]
        ELSE IF strike_count(struck) = 1
        THEN [result |-> [struck EXCEPT !.status = "on_notice"],
              eliminated |-> FALSE]
        ELSE [result |-> struck, eliminated |-> FALSE]

\* Variant of StrikeTeam: the first strike does not set on_notice.
StrikeTeam_NoNotice(result, wk, score) ==
    LET struck == [result EXCEPT
                     !.strikes = Append(@, [week |-> wk, score |-> score])]
    IN  IF strike_count(struck) >= 2
        THEN [result |-> [struck EXCEPT !.status = "eliminated",
                                        !.elimination_week = wk],
              eliminated |-> TRUE]
        ELSE [result |-> struck, eliminated |-> FALSE]

\* Variant of StrikeTeam: the new strike is put at the front of the list.
StrikeTeam_Prepend(result, wk, score) ==
    LET struck == [result EXCEPT
                     !.strikes = <<[week |-> wk, score |-> score]>> \o @]
    IN  IF strike_count(struck) >= 2
        THEN [result |-> [struck EXCEPT !.status = "eliminated",
                                        !.elimination_week = wk],
              eliminated |-> TRUE]
        ELSE IF strike_count(struck) = 1
        THEN [result |-> [struck EXCEPT !.status = "on_notice"],
              eliminated |-> FALSE]
        ELSE [result |-> struck, eliminated |-> FALSE]

\* Step 6, loop body: append the strike, then set status / elimination_week;
\* "eliminated" tells whether the team is appended to eliminations.
StrikeTeam(result, wk, score) ==
    LET struck == [result EXCEPT
                     !.strikes = Append(@, [week |-> wk, score |-> score])]
    IN  IF strike_count(struck) >= 2
        THEN [result |-> [struck EXCEPT !.status = "eliminated",
                                        !.elimination_week = wk],
              eliminated |-> TRUE]
        ELSE IF strike_count(struck) = 1
        THEN [result |-> [struck EXCEPT !.status = "on_notice"],
              eliminated |-> FALSE]
        ELSE [result |-> struck, eliminated |-> FALSE]

\* Step 6: for team_code in teams_to_strike: ...
RECURSIVE AssignStrikes(_, _, _, _, _)
AssignStrikes(tr, eliminations, todo, wk, scores) ==
    IF todo = <<>>
    THEN [team_results |-> tr, eliminations |-> eliminations]
    ELSE LET code == Head(todo)
             s == StrikeTeam(tr[code], wk, scores[code])
         IN  AssignStrikes([tr EXCEPT ![code] = s.result],
                           IF s.eliminated THEN Append(eliminations, code)
                           ELSE eliminations,
                           Tail(todo), wk, scores)

\* Variant of process_korm_week: on_notice is treated as a flag of the week,
\* so a team that is not struck this week goes back to active.
process_korm_week_WeeklyNotice(wk, scores, tr, order) ==
    LET active_teams == ActiveTeams(tr, order)
        active_count_start == Len(active_teams)
        active_scores == ActiveScores(scores, active_teams)
        strike_mode == StrikeMode(active_count_start)
        sorted_teams == SortedTeams(active_scores)
        teams_to_strike == TeamsToStrike(sorted_teams, StrikesPerWeek(strike_mode))
        done == AssignStrikes(tr, <<>>, teams_to_strike, wk, scores)
        struck == {teams_to_strike[i] : i \in 1..Len(teams_to_strike)}
        reset == [c \in DOMAIN tr |->
                    IF c \notin struck /\ done.team_results[c].status = "on_notice"
                    THEN [done.team_results[c] EXCEPT !.status = "active"]
                    ELSE done.team_results[c]]
    IN  [team_results |-> reset,
         week_result |->
            [week |-> wk,
             active_count_start |-> active_count_start,
             strike_mode |-> strike_mode,
             scores |-> ScoresList(active_scores),
             strikes_given |-> teams_to_strike,
             eliminations |-> done.eliminations,
             active_count_end |-> ActiveCount(reset)]]

\* Variant of process_korm_week: the strike mode is chosen from the number
\* of active teams that have a score this week.
process_korm_week_ScoredCount(wk, scores, tr, order) ==
    LET active_teams == ActiveTeams(tr, order)
        active_scores == ActiveScores(scores, active_teams)
        active_count_start == Len(active_scores)
        strike_mode == StrikeMode(active_count_start)
        sorted_teams == SortedTeams(active_scores)
        teams_to_strike == TeamsToStrike(sorted_teams, StrikesPerWeek(strike_mode))
        done == AssignStrikes(tr, <<>>, teams_to_strike, wk, scores)
    IN  [team_results |-> done.team_results,
         week_result |->
            [week |-> wk,
             active_count_start |-> active_count_start,
             strike_mode |-> strike_mode,
             scores |-> ScoresList(active_scores),
             strikes_given |-> teams_to_strike,
             eliminations |-> done.eliminations,
             active_count_end |-> ActiveCount(done.team_results)]]

\* Variant of process_korm_week: strikes_given lists the nominal number of
\* teams (the first strike_count of teams_to_strike), while every team tied at
\* the threshold is struck.
process_korm_week_NominalGiven(wk, scores, tr, order) ==
    LET active_teams == ActiveTeams(tr, order)
        active_count_start == Len(active_teams)
        active_scores == ActiveScores(scores, active_teams)
        strike_mode == StrikeMode(active_count_start)
        sorted_teams == SortedTeams(active_scores)
        teams_to_strike == TeamsToStrike(sorted_teams, StrikesPerWeek(strike_mode))
        done == AssignStrikes(tr, <<>>, teams_to_strike, wk, scores)
    IN  [team_results |-> done.team_results,
         week_result |->
            [week |-> wk,
             active_count_start |-> active_count_start,
             strike_mode |-> strike_mode,
             scores |-> ScoresList(active_scores),
             strikes_given |->
                 SubSeq(teams_to_strike, 1, StrikesPerWeek(strike_mode)),
             eliminations |-> done.eliminations,
             active_count_end |-> ActiveCount(done.team_results)]]

\* process_korm_week(week, scores, team_results): the mutated team_results
\* and the returned KORMWeekResult.  "order" is the dict order of team_results.
process_korm_week(wk, scores, tr, order) ==
    LET active_teams == ActiveTeams(tr, order)
        active_count_start == Len(active_teams)
        active_scores == ActiveScores(scores, active_teams)
        strike_mode == StrikeMode(active_count_start)
        sorted_teams == SortedTeams(active_scores)
        teams_to_strike == TeamsToStrike(sorted_teams, StrikesPerWeek(strike_mode))
        done == AssignStrikes(tr, <<>>, teams_to_strike, wk, scores)
    IN  [team_results |-> done.team_results,
         week_result |->
            [week |-> wk,
             active_count_start |-> active_count_start,
             strike_mode |-> strike_mode,
             scores |-> ScoresList(active_scores),
             strikes_given |-> teams_to_strike,
             eliminations |-> done.eliminations,
             active_count_end |-> ActiveCount(done.team_results)]]

\* ---- _assign_final_standings ---------------------------------------------

\* Variant of Payout: the table of 2019 and later for every season.
Payout_OneTable(yr, place) ==
    IF place = 1 THEN 800 ELSE IF place = 2 THEN 300
    ELSE IF place = 3 THEN 100 ELSE 0

\* PAYOUTS_2018 if year == 2018 else PAYOUTS, then payouts.get(place, 0)
Payout(yr, place) ==
    IF yr = 2018
    THEN (IF place = 1 THEN 320 ELSE IF place = 2 THEN 120
          ELSE IF place = 3 THEN 40 ELSE 0)
    ELSE (IF place = 1 THEN 800 ELSE IF place = 2 THEN 300
          ELSE IF place = 3 THEN 100 ELSE 0)

\* total_points[team] = sum(scores.get(team, 0)
\*                          for scores in weekly_scores.values())
TotalPoints(ws, team) ==
    SumOver([w \in DOMAIN ws |->
                IF team \in DOMAIN ws[w] THEN ws[w][team] ELSE 0],
            DOMAIN ws)

\* active.sort(key=lambda r: (r.strike_count, -total_points[...]))
ActiveRanked(tr, order, ws) ==
    LET active == SelectSeq(order, LAMBDA c : tr[c].status # "eliminated")
        keyed == [i \in 1..Len(active) |->
                    [key |-> <<strike_count(tr[active[i]]),
                               0 - TotalPoints(ws, active[i])>>,
                     team |-> active[i]]]
        srt == SortedByKey(keyed)
    IN  [i \in 1..Len(srt) |-> srt[i].team]

\* Variant of EliminatedRanked: earlier elimination first (the sign of the
\* first key is lost).
EliminatedRanked_EarlierFirst(tr, order, ws) ==
    LET eliminated == SelectSeq(order, LAMBDA c : tr[c].status = "eliminated")
        keyed == [i \in 1..Len(eliminated) |->
                    [key |-> <<tr[eliminated[i]].elimination_week,
                               0 - TotalPoints(ws, eliminated[i])>>,
                     team |-> eliminated[i]]]
        srt == SortedByKey(keyed)
    IN  [i \in 1..Len(srt) |-> srt[i].team]

\* Variant of EliminatedRanked: a team's points are those of the weeks up to
\* its elimination, later weeks of the score data are not added.
EliminatedRanked_PointsWhileIn(tr, order, ws) ==
    LET eliminated == SelectSeq(order, LAMBDA c : tr[c].status = "eliminated")
        played(c) == [w \in {x \in DOMAIN ws : x <= tr[c].elimination_week}
                         |-> ws[w]]
        keyed == [i \in 1..Len(eliminated) |->
                    [key |-> <<IF tr[eliminated[i]].elimination_week # NoneVal
                               THEN 0 - tr[eliminated[i]].elimination_week
                               ELSE 0,
                               0 - TotalPoints(played(eliminated[i]),
                                               eliminated[i])>>,
                     team |-> eliminated[i]]]
        srt == SortedByKey(keyed)
    IN  [i \in 1..Len(srt) |-> srt[i].team]

\* eliminated.sort(key=lambda r: (-r.elimination_week
\*                                if r.elimination_week else 0, -total_points))
EliminatedRanked(tr, order, ws) ==
    LET eliminated == SelectSeq(order, LAMBDA c : tr[c].status = "eliminated")
        keyed == [i \in 1..Len(eliminated) |->
                    [key |-> <<IF tr[eliminated[i]].elimination_week # NoneVal
                               THEN 0 - tr[eliminated[i]].elimination_week
                               ELSE 0,
                               0 - TotalPoints(ws, eliminated[i])>>,
                     team |-> eliminated[i]]]
        srt == SortedByKey(keyed)
    IN  [i \in 1..Len(srt) |-> srt[i].team]

\* Variant of AssignPlaces: the payout is added to the one already stored.
RECURSIVE AssignPlaces_Accumulate(_, _, _, _)
AssignPlaces_Accumulate(tr, ranked, place, yr) ==
    IF ranked = <<>> THEN [team_results |-> tr, place |-> place]
    ELSE AssignPlaces_Accumulate(
             [tr EXCEPT ![Head(ranked)].final_place = place,
                        ![Head(ranked)].payout = @ + Payout(yr, place)],
             Tail(ranked), place + 1, yr)

\* for result in <list>: result.final_place = place; result.payout = ...;
\* place += 1.  Returns the results and the next place.
RECURSIVE AssignPlaces(_, _, _, _)
AssignPlaces(tr, ranked, place, yr) ==
    IF ranked = <<>> THEN [team_results |-> tr, place |-> place]
    ELSE AssignPlaces([tr EXCEPT ![Head(ranked)].final_place = place,
                                 ![Head(ranked)].payout = Payout(yr, place)],
                      Tail(ranked), place + 1, yr)

\* Variant of assign_final_standings: the eliminated list is placed first.
assign_final_standings_EliminatedFirst(tr, order, ws, yr) ==
    LET first == AssignPlaces(tr, EliminatedRanked(tr, order, ws), 1, yr)
        second == AssignPlaces(first.team_results,
                               ActiveRanked(tr, order, ws), first.place, yr)
    IN  second.team_results

\* Variant of assign_final_standings: place starts again at 1 for the
\* eliminated list.
assign_final_standings_PlaceRestarts(tr, order, ws, yr) ==
    LET first == AssignPlaces(tr, ActiveRanked(tr, order, ws), 1, yr)
        second == AssignPlaces(first.team_results,
                               EliminatedRanked(tr, order, ws), 1, yr)
    IN  second.team_results

\* _assign_final_standings(team_results, weekly_scores, year); "order" is
\* the dict order of team_results.
assign_final_standings(tr, order, ws, yr) ==
    LET first == AssignPlaces(tr, ActiveRanked(tr, order, ws), 1, yr)
        second == AssignPlaces(first.team_results,
                               EliminatedRanked(tr, order, ws), first.place, yr)
    IN  second.team_results

\* Variant of GetWinner: only a team that was not eliminated can win.
GetWinner_SurvivorOnly(tr, order) ==
    LET first == SelectSeq(order, LAMBDA c : /\ tr[c].final_place = 1
                                             /\ tr[c].status # "eliminated")
    IN  IF first = <<>> THEN NoneVal ELSE Head(first)

\* for code, result in team_results.items():
\*     if result.final_place == 1: winner = code; break
GetWinner(tr, order) ==
    LET first == SelectSeq(order, LAMBDA c : tr[c].final_place = 1)
    IN  IF first = <<>> THEN NoneVal ELSE Head(first)

\* ---- inputs --------------------------------------------------------------

\* The score data of a season is bounded in size: with n teams and d weeks
\* of data, the scores range over 1..s for the largest s <= MaxScore with
\* n * d * (s - 1) <= InputBudget.  Five teams with three weeks of data have
\* two score values, three teams with two weeks have three.
ScoreRange(n, d) == { s \in Scores : n * d * (s - 1) <= InputBudget }

\* A week's score set in which every team of a roster 1..n has a score.
\* (The loaders create a week's dict only to insert a row into it, so a
\* week that is present is never empty.)
ScoreSets(n, d) == [1..n -> ScoreRange(n, d)]

\* weekly_scores: any subset of the window's weeks has data, week 1 included
\* or not; every week that has data covers the same roster.
SeasonInputs ==
    UNION { IF D = {} THEN {<<>>} ELSE [D -> ScoreSets(n, Cardinality(D))] :
              D \in SUBSET Weeks, n \in 1..MaxTeams }

\* Score data with gaps.  Week 1 names the roster 1..n; a later week's score
\* set covers any non-empty set of codes out of the roster and one more code,
\* n + 1, that week 1 does not have.  With d weeks of data there are
\* n + (n + 1) * (d - 1) team-week cells, each absent or one of s scores; the
\* scores range over 1..s for the largest s <= MaxScore with
\* cells * (s + 1) <= GapBudget.
GapScoreRange(n, d) ==
    { s \in Scores : (n + (n + 1) * (d - 1)) * (s + 1) <= GapBudget }

\* The score sets a later week may have.
GapWeekSets(n, d) ==
    UNION { [P -> GapScoreRange(n, d)] : P \in (SUBSET (1..(n + 1))) \ {{}} }

\* weekly_scores with gaps: weeks 1..d have data, "first" is the score set
\* of week 1 and "rest" those of the weeks 2..d.
GapSeason(d, first, rest) == [w \in 1..d |-> IF w = 1 THEN first ELSE rest[w]]

\* list(d.keys()): team codes are numbered in insertion order.
RECURSIVE KeysOf(_)
KeysOf(S) ==
    IF S = {} THEN <<>>
    ELSE LET m == CHOOSE x \in S : \A y \in S : x <= y
         IN  <<m>> \o KeysOf(S \ {m})

\* ---- process_korm_season -------------------------------------------------

Init ==
    /\ year \in SeasonYears
    /\ weekly_scores \in SeasonInputs
    /\ pc = "start"
    /\ teams = <<>>
    /\ team_results = <<>>
    /\ week = NoneVal
    /\ week_results = <<>>
    /\ ended_early = FALSE
    /\ winner = NoneVal
    /\ document = NoneVal
    /\ peer = NoFrame
    /\ rows = <<>>
    /\ row = NoneVal
    /\ tracker_teams = <<>>
    /\ live_mode = NoAnswer

\* Variant of RaiseNoWeek1: missing week-1 data is taken as an empty roster
\* and the season goes on.
RaiseNoWeek1_EmptyRoster ==
    /\ pc = "start"
    /\ 1 \notin DOMAIN weekly_scores
    /\ week' = StartWeek
    /\ pc' = "loop"
    /\ UNCHANGED <<year, weekly_scores, teams, team_results, week_results,
                   ended_early, winner,
                   document, peer, rows, row,
                   tracker_teams, live_mode>>

\* The same call on score data with gaps.
InitGaps ==
    /\ year \in SeasonYears
    /\ \/ weekly_scores = <<>>
       \/ \E n \in 1..MaxTeams, d \in 1..EndWeek :
             \E first \in [1..n -> GapScoreRange(n, d)],
                rest \in [2..d -> GapWeekSets(n, d)] :
                 weekly_scores = GapSeason(d, first, rest)
    /\ pc = "start"
    /\ teams = <<>>
    /\ team_results = <<>>
    /\ week = NoneVal
    /\ week_results = <<>>
    /\ ended_early = FALSE
    /\ winner = NoneVal
    /\ document = NoneVal
    /\ peer = NoFrame
    /\ rows = <<>>
    /\ row = NoneVal
    /\ tracker_teams = <<>>
    /\ live_mode = NoAnswer

\* if 1 not in weekly_scores: raise ValueError
RaiseNoWeek1 ==
    /\ pc = "start"
    /\ 1 \notin DOMAIN weekly_scores
    /\ pc' = "error"
    /\ UNCHANGED <<year, weekly_scores, teams, team_results, week,
                   week_results, ended_early, winner,
                   document, peer, rows, row,
                   tracker_teams, live_mode>>

\* Variant of Begin: the roster is every team code of the whole score data.
Begin_AllWeeks ==
    /\ pc = "start"
    /\ 1 \in DOMAIN weekly_scores
    /\ LET codes == UNION {DOMAIN weekly_scores[w] : w \in DOMAIN weekly_scores}
       IN  /\ teams' = KeysOf(codes)
           /\ team_results' = [c \in codes |-> KORMTeamResult(c)]
    /\ week' = StartWeek
    /\ pc' = "loop"
    /\ UNCHANGED <<year, weekly_scores, week_results, ended_early, winner,
                   document, peer, rows, row,
                   tracker_teams, live_mode>>

\* teams = list(weekly_scores[1].keys()); team_results = {...}; the loop
\* variable takes its first value.
Begin ==
    /\ pc = "start"
    /\ 1 \in DOMAIN weekly_scores
    /\ teams' = KeysOf(DOMAIN weekly_scores[1])
    /\ team_results' = [c \in DOMAIN weekly_scores[1] |-> KORMTeamResult(c)]
    /\ week' = StartWeek
    /\ pc' = "loop"
    /\ UNCHANGED <<year, weekly_scores, week_results, ended_early, winner,
                   document, peer, rows, row,
                   tracker_teams, live_mode>>

\* The for statement: after the body for "week", either the next week or,
\* when range(start_week, end_week + 1) is exhausted, the code after the loop.
AfterWeek(w) == IF w + 1 > EndWeek THEN "standings" ELSE "loop"

\* if active_count <= 1: (the competition already ended)
SeasonOver(active_count) == active_count <= 1

\* Variant of SkipWeek: a week without data ends the loop (break).
SkipWeek_Break ==
    /\ pc = "loop"
    /\ week \notin DOMAIN weekly_scores
    /\ pc' = "standings"
    /\ UNCHANGED <<year, weekly_scores, teams, team_results, week,
                   week_results, ended_early, winner,
                   document, peer, rows, row,
                   tracker_teams, live_mode>>

\* if week not in weekly_scores: continue
SkipWeek ==
    /\ pc = "loop"
    /\ week \notin DOMAIN weekly_scores
    /\ week' = week + 1
    /\ pc' = AfterWeek(week)
    /\ UNCHANGED <<year, weekly_scores, teams, team_results, week_results,
                   ended_early, winner,
                   document, peer, rows, row,
                   tracker_teams, live_mode>>

\* if active_count <= 1: ended_early = True; break
EndEarly ==
    /\ pc = "loop"
    /\ week \in DOMAIN weekly_scores
    /\ SeasonOver(ActiveCount(team_results))
    /\ ended_early' = TRUE
    /\ pc' = "standings"
    /\ UNCHANGED <<year, weekly_scores, teams, team_results, week,
                   week_results, winner,
                   document, peer, rows, row,
                   tracker_teams, live_mode>>

\* Variant of ProcessWeek: the loop variable does not move on, the next turn
\* of the loop is for the same week.
ProcessWeek_SameWeek ==
    /\ pc = "loop"
    /\ week \in DOMAIN weekly_scores
    /\ ~SeasonOver(ActiveCount(team_results))
    /\ LET out == process_korm_week(week, weekly_scores[week],
                                    team_results, teams)
       IN  /\ team_results' = out.team_results
           /\ week_results' = Append(week_results, out.week_result)
    /\ UNCHANGED <<year, weekly_scores, pc, teams, week, ended_early, winner,
                   document, peer, rows, row,
                   tracker_teams, live_mode>>

\* week_result = process_korm_week(...); week_results.append(week_result)
ProcessWeek ==
    /\ pc = "loop"
    /\ week \in DOMAIN weekly_scores
    /\ ~SeasonOver(ActiveCount(team_results))
    /\ LET out == process_korm_week(week, weekly_scores[week],
                                    team_results, teams)
       IN  /\ team_results' = out.team_results
           /\ week_results' = Append(week_results, out.week_result)
    /\ week' = week + 1
    /\ pc' = AfterWeek(week)
    /\ UNCHANGED <<year, weekly_scores, teams, ended_early, winner,
                   document, peer, rows, row,
                   tracker_teams, live_mode>>

\* _assign_final_standings(team_results, weekly_scores, year)
AssignFinalStandings ==
    /\ pc = "standings"
    /\ team_results' = assign_final_standings(team_results, teams,
                                              weekly_scores, year)
    /\ pc' = "winner"
    /\ UNCHANGED <<year, weekly_scores, teams, week, week_results,
                   ended_early, winner,
                   document, peer, rows, row,
                   tracker_teams, live_mode>>

\* winner = first code with final_place == 1; return KORMSeasonResult(...)
Return ==
    /\ pc = "winner"
    /\ winner' = GetWinner(team_results, teams)
    /\ pc' = "done"
    /\ UNCHANGED <<year, weekly_scores, teams, team_results, week,
                   week_results, ended_early,
                   document, peer, rows, row,
                   tracker_teams, live_mode>>

Next ==
    \/ RaiseNoWeek1
    \/ Begin
    \/ SkipWeek
    \/ EndEarly
    \/ ProcessWeek
    \/ AssignFinalStandings
    \/ Return

Spec == Init /\ [][Next]_vars

SpecGaps == InitGaps /\ [][Next]_vars

\* The score data of a call that is followed to its end: any subset of the
\* window's weeks has data for the roster 1..n, with the scores 1..s for the
\* largest s <= MaxScore with n * d * (s - 1) <= LiveBudget.
LiveScoreRange(n, d) == { s \in Scores : n * d * (s - 1) <= LiveBudget }

LiveInputs ==
    UNION { IF D = {} THEN {<<>>}
            ELSE [D -> [1..n -> LiveScoreRange(n, Cardinality(D))]] :
              D \in SUBSET Weeks, n \in 1..MaxTeams }

InitLive ==
    /\ year \in SeasonYears
    /\ weekly_scores \in LiveInputs
    /\ pc = "start"
    /\ teams = <<>>
    /\ team_results = <<>>
    /\ week = NoneVal
    /\ week_results = <<>>
    /\ ended_early = FALSE
    /\ winner = NoneVal
    /\ document = NoneVal
    /\ peer = NoFrame
    /\ rows = <<>>
    /\ row = NoneVal
    /\ tracker_teams = <<>>
    /\ live_mode = NoAnswer

\* Control moves on: the call is at a statement of process_korm_season (it
\* has neither returned nor raised) and goes to another point of the code or
\* to the next week of the loop.  Every step of Next is such a step.
Advance ==
    /\ pc \in {"start", "loop", "standings", "winner"}
    /\ pc' \in {"error", "loop", "standings", "winner", "done"}
    /\ week' \in {week, week + 1, StartWeek}
    /\ <<pc', week'>> # <<pc, week>>

\* The call runs on: it is one thread of plain Python that calls nothing
\* that blocks, so while it is at a statement, control moves on.
SpecLive == InitLive /\ [][Next]_vars /\ WF_<<pc, week>>(Advance)

\* ---- the call as a function ----------------------------------------------

\* SEASON_CONFIG[year]["entry_fee"] and ["pool"]
EntryFee(yr) == IF yr = 2018 THEN 40 ELSE 100
Pool(yr) == IF yr = 2018 THEN 480 ELSE 1200

\* return KORMSeasonResult(season=year, korm_window=(start_week, end_week),
\*                         entry_fee=..., pool=..., teams=teams, ...)
KORMSeasonResult(yr, tms, wrs, tr, win, early) ==
    [season |-> yr, korm_window |-> <<StartWeek, EndWeek>>,
     entry_fee |-> EntryFee(yr), pool |-> Pool(yr),
     teams |-> tms, weeks |-> wrs, team_results |-> tr,
     winner |-> win, ended_early |-> early]

\* The for loop of process_korm_season from week w on.
RECURSIVE RunWeeks(_, _, _, _, _)
RunWeeks(ws, order, tr, wrs, w) ==
    IF w > EndWeek
    THEN [team_results |-> tr, week_results |-> wrs, ended_early |-> FALSE]
    ELSE IF w \notin DOMAIN ws
    THEN RunWeeks(ws, order, tr, wrs, w + 1)
    ELSE IF SeasonOver(ActiveCount(tr))
    THEN [team_results |-> tr, week_results |-> wrs, ended_early |-> TRUE]
    ELSE LET out == process_korm_week(w, ws[w], tr, order)
         IN  RunWeeks(ws, order, out.team_results,
                      Append(wrs, out.week_result), w + 1)

\* process_korm_season(year, weekly_scores) run from entry to return, for
\* score data that has week 1.
process_korm_season(yr, ws) ==
    LET order == KeysOf(DOMAIN ws[1])
        loop == RunWeeks(ws, order, [c \in DOMAIN ws[1] |-> KORMTeamResult(c)],
                         <<>>, StartWeek)
        ranked == assign_final_standings(loop.team_results, order, ws, yr)
    IN  KORMSeasonResult(yr, order, loop.week_results, ranked,
                         GetWinner(ranked, order), loop.ended_early)

\* ---- two calls, their steps interleaved ----------------------------------

\* Everything a call of process_korm_season owns: its arguments and its
\* local variables, team_results and week_results among them.
Frame ==
    [year |-> year, weekly_scores |-> weekly_scores, pc |-> pc,
     teams |-> teams, team_results |-> team_results, week |-> week,
     week_results |-> week_results, ended_early |-> ended_early,
     winner |-> winner, document |-> document]

\* Variant of Switch: week_results is one list of the module that every call
\* appends to, not a local variable of the call.
Switch_SharedWeekResults ==
    /\ peer # NoFrame
    /\ year' = peer.year
    /\ weekly_scores' = peer.weekly_scores
    /\ pc' = peer.pc
    /\ teams' = peer.teams
    /\ team_results' = peer.team_results
    /\ week' = peer.week
    /\ ended_early' = peer.ended_early
    /\ winner' = peer.winner
    /\ document' = peer.document
    /\ peer' = Frame
    /\ UNCHANGED <<week_results, rows, row,
                   tracker_teams, live_mode>>

\* The running call stops between two of its steps and the other call goes
\* on from where it stopped.
Switch ==
    /\ peer # NoFrame
    /\ year' = peer.year
    /\ weekly_scores' = peer.weekly_scores
    /\ pc' = peer.pc
    /\ teams' = peer.teams
    /\ team_results' = peer.team_results
    /\ week' = peer.week
    /\ week_results' = peer.week_results
    /\ ended_early' = peer.ended_early
    /\ winner' = peer.winner
    /\ document' = peer.document
    /\ peer' = Frame
    /\ UNCHANGED <<rows, row,
                   tracker_teams, live_mode>>

\* The score data of each of the two calls: weeks 1..d have data for the
\* roster 1..n, with the scores 1..s for the largest s <= MaxScore with
\* n * d * (s - 1) <= PairBudget.
PairScoreRange(n, d) == { s \in Scores : n * d * (s - 1) <= PairBudget }

PairInputs ==
    UNION { [1..d -> [1..n -> PairScoreRange(n, d)]] :
              n \in 1..MaxTeams, d \in 0..EndWeek }

\* The other season of the two.
PeerYears == {2018}

\* A call before its first step.
NewFrame(yr, ws) ==
    [year |-> yr, weekly_scores |-> ws, pc |-> "start", teams |-> <<>>,
     team_results |-> <<>>, week |-> NoneVal, week_results |-> <<>>,
     ended_early |-> FALSE, winner |-> NoneVal, document |-> NoneVal]

InitPair ==
    /\ year \in SeasonYears
    /\ weekly_scores \in PairInputs
    /\ pc = "start"
    /\ teams = <<>>
    /\ team_results = <<>>
    /\ week = NoneVal
    /\ week_results = <<>>
    /\ ended_early = FALSE
    /\ winner = NoneVal
    /\ document = NoneVal
    /\ \E yr \in PeerYears, ws \in PairInputs : peer = NewFrame(yr, ws)
    /\ rows = <<>>
    /\ row = NoneVal
    /\ tracker_teams = <<>>
    /\ live_mode = NoAnswer

NextPair == Next \/ Switch

SpecPair == InitPair /\ [][NextPair]_vars

\* ---- the score loaders ---------------------------------------------------

\* weekly_scores[week][team] = score, after
\* "if week not in weekly_scores: weekly_scores[week] = {}".
\* (A dict is kept as a function here: the order of its keys is not.)
PutScore(ws, w, team, score) ==
    LET old == IF w \in DOMAIN ws THEN ws[w] ELSE <<>>
        new == [c \in DOMAIN old \cup {team} |->
                   IF c = team THEN score ELSE old[c]]
    IN  [x \in DOMAIN ws \cup {w} |-> IF x = w THEN new ELSE ws[x]]

\* Variant of BeyondWindow: no week is refused.
BeyondWindow_Never(w, max_week) == FALSE

\* if week > max_week: continue
BeyondWindow(w, max_week) == w > max_week

\* The body of the loop of load_weekly_scores_from_h2h for one row.
H2HRow(ws, r, max_week) ==
    IF BeyondWindow(r.week, max_week) THEN ws
    ELSE PutScore(PutScore(ws, r.week, r.home_team, r.home_score),
                  r.week, r.away_team, r.away_score)

\* The body of the loop of load_weekly_scores_from_teamweek for one row.
TeamweekRow(ws, r, max_week) ==
    IF BeyondWindow(r.week, max_week) THEN ws
    ELSE PutScore(ws, r.week, r.team_code, r.team_actual_total)

\* The weeks a CSV file may name: the window and the week after it.
FileWeeks == StartWeek..(EndWeek + 1)

\* The rows of h2h.csv: a match of two different teams with their scores.
H2HRows ==
    { r \in [week : FileWeeks, home_team : 1..2, home_score : 1..2,
             away_team : 1..2, away_score : 1..2] :
        r.home_team # r.away_team }

\* The rows of teamweek_unified.csv: one team's score of one week.
TeamweekRows == [week : FileWeeks, team_code : 1..2, team_actual_total : 1..2]

\* The files of up to MaxRows rows.
Files(Rows) == UNION { [1..n -> Rows] : n \in 0..MaxRows }

\* The season whose data is in h2h.csv, and the others.
LoadYears == {2018, 2024}

\* load_weekly_scores(year, repo_root) after df = pd.read_csv(...):
\* the h2h loader for 2018, the teamweek loader for any other year.
InitLoad ==
    /\ year \in LoadYears
    /\ rows \in (IF year = 2018 THEN Files(H2HRows) ELSE Files(TeamweekRows))
    /\ row = 1
    /\ weekly_scores = <<>>
    /\ pc = "load"
    /\ teams = <<>>
    /\ team_results = <<>>
    /\ week = NoneVal
    /\ week_results = <<>>
    /\ ended_early = FALSE
    /\ winner = NoneVal
    /\ document = NoneVal
    /\ peer = NoFrame
    /\ tracker_teams = <<>>
    /\ live_mode = NoAnswer

\* One turn of "for _, row in df.iterrows()" in load_weekly_scores_from_h2h;
\* max_week is the end of the season's window.
LoadH2HRow ==
    /\ pc = "load"
    /\ year = 2018
    /\ row <= Len(rows)
    /\ weekly_scores' = H2HRow(weekly_scores, rows[row], EndWeek)
    /\ row' = row + 1
    /\ UNCHANGED <<year, pc, teams, team_results, week, week_results,
                   ended_early, winner, document, peer, rows,
                   tracker_teams, live_mode>>

\* One turn of the loop of load_weekly_scores_from_teamweek.
LoadTeamweekRow ==
    /\ pc = "load"
    /\ year # 2018
    /\ row <= Len(rows)
    /\ weekly_scores' = TeamweekRow(weekly_scores, rows[row], EndWeek)
    /\ row' = row + 1
    /\ UNCHANGED <<year, pc, teams, team_results, week, week_results,
                   ended_early, winner, document, peer, rows,
                   tracker_teams, live_mode>>

\* return weekly_scores
LoadReturn ==
    /\ pc = "load"
    /\ row > Len(rows)
    /\ pc' = "loaded"
    /\ UNCHANGED <<year, weekly_scores, teams, team_results, week,
                   week_results, ended_early, winner, document, peer, rows, row,
                   tracker_teams, live_mode>>

NextLoad == LoadH2HRow \/ LoadTeamweekRow \/ LoadReturn

SpecLoad == InitLoad /\ [][NextLoad]_vars

\* ---- generate_korm_json ---------------------------------------------------

\* The entries of "weeks": one dict per KORMWeekResult.
JsonWeeks(weeks) ==
    [i \in 1..Len(weeks) |->
        [week |-> weeks[i].week,
         active_count |-> weeks[i].active_count_start,
         strike_mode |-> weeks[i].strike_mode,
         scores |-> weeks[i].scores,
         strikes |-> weeks[i].strikes_given,
         eliminations |-> weeks[i].eliminations]]

\* KORMTeamResult.strike_weeks: [s.week for s in self.strikes]
strike_weeks(r) == [i \in 1..Len(r.strikes) |-> r.strikes[i].week]

\* The entries of "final_standings": one dict per team, in the order of
\* sorted(result.team_results.values(),
\*        key=lambda x: x.final_place if x.final_place else 999)
JsonStandings(tr, order) ==
    LET keyed == [i \in 1..Len(order) |->
                    [key |-> <<IF tr[order[i]].final_place # NoneVal
                               THEN tr[order[i]].final_place ELSE 999>>,
                     team |-> order[i]]]
        srt == SortedByKey(keyed)
    IN  [i \in 1..Len(srt) |->
            LET r == tr[srt[i].team]
            IN  [place |-> r.final_place,
                 team |-> r.team_code,
                 strikes |-> strike_count(r),
                 strike_weeks |-> strike_weeks(r),
                 status |-> r.status,
                 elimination_week |-> r.elimination_week,
                 payout |-> r.payout]]

\* generate_korm_json(result).  The entry "generated" is the wall clock of
\* the call, not a function of the result, and is left out.
generate_korm_json(result) ==
    [season |-> result.season,
     korm_window |-> [start |-> result.korm_window[1],
                      end |-> result.korm_window[2]],
     entry_fee |-> result.entry_fee,
     pool |-> result.pool,
     teams |-> result.teams,
     ended_early |-> result.ended_early,
     weeks |-> JsonWeeks(result.weeks),
     final_standings |-> JsonStandings(result.team_results, result.teams),
     winner |-> result.winner]

\* The KORMSeasonResult objects given to generate_korm_json: what
\* process_korm_season returns, and objects built by hand as the one of
\* tests/test_korm_processor.py (sample_result), whose weeks list holds the
\* first weeks only while the team results hold later strikes.
JsonResults(yr) ==
    UNION { LET r == process_korm_season(yr, ws)
            IN  { [r EXCEPT !.weeks = SubSeq(r.weeks, 1, k)] :
                     k \in 0..Len(r.weeks) } :
            ws \in { x \in PairInputs : 1 \in DOMAIN x } }

\* The frame that holds a KORMSeasonResult, as after the return of the call
\* that made it (the score data is not part of the result).
ResultFrame(r) ==
    [year |-> r.season, weekly_scores |-> <<>>, pc |-> "done",
     teams |-> r.teams, team_results |-> r.team_results, week |-> NoneVal,
     week_results |-> r.weeks, ended_early |-> r.ended_early,
     winner |-> r.winner, document |-> NoneVal]

\* Two results, each about to be given to generate_korm_json.
InitJson ==
    \E a, b \in JsonResults(2024) :
        /\ year = a.season
        /\ weekly_scores = <<>>
        /\ pc = "done"
        /\ teams = a.teams
        /\ team_results = a.team_results
        /\ week = NoneVal
        /\ week_results = a.weeks
        /\ ended_early = a.ended_early
        /\ winner = a.winner
        /\ document = NoneVal
        /\ peer = ResultFrame(b)
        /\ rows = <<>>
        /\ row = NoneVal
        /\ tracker_teams = <<>>
        /\ live_mode = NoAnswer

\* json_data = generate_korm_json(result)
GenerateJson ==
    /\ pc = "done"
    /\ document' = generate_korm_json(
                      KORMSeasonResult(year, teams, week_results, team_results,
                                       winner, ended_early))
    /\ pc' = "saved"
    /\ UNCHANGED <<year, weekly_scores, teams, team_results, week,
                   week_results, ended_early, winner, peer, rows, row,
                   tracker_teams, live_mode>>

NextJson == GenerateJson \/ Switch

SpecJson == InitJson /\ [][NextJson]_vars

\* ---- the live tracker (rffl/live/korm.py) ---------------------------------

\* The names of the teams a tracker may be given: one more than the largest
\* roster of a processed season, so that six teams can be active.
TrackedTeams == 1..(MaxTeams + 1)

\* KORMTeam(name, abbr, team_id): name, abbreviation and id are one number.
KORMTeam(name) ==
    [name |-> name, abbreviation |-> name, team_id |-> name, strikes |-> 0,
     strike_weeks |-> <<>>, eliminated |-> FALSE, eliminated_week |-> NoneVal]

\* KORMTracker.get_active_teams: the teams that are not eliminated.
get_active_teams(tt) == {t \in DOMAIN tt : ~tt[t].eliminated}

\* KORMTracker.get_strike_mode
get_strike_mode(tt) ==
    LET active_count == Cardinality(get_active_teams(tt))
    IN  IF active_count >= 6 THEN "2-strike" ELSE "1-strike"

\* KORMTracker.get_strikes_awarded
get_strikes_awarded(tt) == IF get_strike_mode(tt) = "2-strike" THEN 2 ELSE 1

\* sum(t.strikes for t in teams.values())
RECURSIVE StrikesHeld(_, _)
StrikesHeld(tt, S) ==
    IF S = {} THEN 0
    ELSE LET t == CHOOSE x \in S : TRUE
         IN  tt[t].strikes + StrikesHeld(tt, S \ {t})

\* KORMTracker(history_dir=None): no teams, nothing asked yet.
InitTracker ==
    /\ tracker_teams = <<>>
    /\ live_mode = NoAnswer
    /\ pc = "tracker"
    /\ year \in SeasonYears
    /\ weekly_scores = <<>>
    /\ teams = <<>>
    /\ team_results = <<>>
    /\ week = NoneVal
    /\ week_results = <<>>
    /\ ended_early = FALSE
    /\ winner = NoneVal
    /\ document = NoneVal
    /\ peer = NoFrame
    /\ rows = <<>>
    /\ row = NoneVal

\* add_team(name, abbr, team_id): self.teams[name] = KORMTeam(...).  The
\* name is one the tracker has (the team is replaced by a new one) or the
\* next name it does not have.
AddTeam ==
    /\ pc = "tracker"
    /\ \E name \in TrackedTeams :
          /\ \A t \in 1..(name - 1) : t \in DOMAIN tracker_teams
          /\ tracker_teams' = [t \in DOMAIN tracker_teams \cup {name} |->
                                  IF t = name THEN KORMTeam(name)
                                  ELSE tracker_teams[t]]
    /\ UNCHANGED <<year, weekly_scores, pc, teams, team_results, week,
                   week_results, ended_early, winner, document, peer, rows,
                   row, live_mode>>

\* record_strike(team_name, week): nothing for a name the tracker does not
\* have; else one more strike, the week appended, eliminated from the
\* second strike on.  (At most MaxRecorded strikes are held at a time.)
RecordStrike ==
    /\ pc = "tracker"
    /\ StrikesHeld(tracker_teams, DOMAIN tracker_teams) < MaxRecorded
    /\ \E team_name \in TrackedTeams, wk \in Weeks :
          tracker_teams' =
             IF team_name \notin DOMAIN tracker_teams THEN tracker_teams
             ELSE LET team == tracker_teams[team_name]
                      struck == [team EXCEPT !.strikes = @ + 1,
                                             !.strike_weeks = Append(@, wk)]
                  IN  [tracker_teams EXCEPT ![team_name] =
                          IF struck.strikes >= 2
                          THEN [struck EXCEPT !.eliminated = TRUE,
                                              !.eliminated_week = wk]
                          ELSE struck]
    /\ UNCHANGED <<year, weekly_scores, pc, teams, team_results, week,
                   week_results, ended_early, winner, document, peer, rows,
                   row, live_mode>>

\* A call of get_strike_mode(): its local active_count and what it returns.
GetStrikeMode ==
    /\ pc = "tracker"
    /\ live_mode' =
          [active_count |-> Cardinality(get_active_teams(tracker_teams)),
           strike_mode |-> get_strike_mode(tracker_teams),
           strikes_awarded |-> NoneVal]
    /\ UNCHANGED <<year, weekly_scores, pc, teams, team_results, week,
                   week_results, ended_early, winner, document, peer, rows,
                   row, tracker_teams>>

\* A call of get_strikes_awarded(), which calls get_strike_mode().
GetStrikesAwarded ==
    /\ pc = "tracker"
    /\ live_mode' =
          [active_count |-> Cardinality(get_active_teams(tracker_teams)),
           strike_mode |-> get_strike_mode(tracker_teams),
           strikes_awarded |-> get_strikes_awarded(tracker_teams)]
    /\ UNCHANGED <<year, weekly_scores, pc, teams, team_results, week,
                   week_results, ended_early, winner, document, peer, rows,
                   row, tracker_teams>>

NextTracker == AddTeam \/ RecordStrike \/ GetStrikeMode \/ GetStrikesAwarded

SpecTracker == InitTracker /\ [][NextTracker]_vars

\* ---- replaying the week history ---------------------------------------------

\* The week results that list team c in strikes_given, in history order.
\* (generate_korm_markdown and the standings command walk result.weeks and
\* add one to the team's count for every entry of strikes_given.)
StruckIn(wrs, c) ==
    SelectSeq(wrs, LAMBDA wr : \E i \in 1..Len(wr.strikes_given) :
                                   wr.strikes_given[i] = c)

\* team_strikes[team] after "for team in w.strikes_given:
\* team_strikes[team] += 1" over the whole history.
ReplayStrikes(wrs, c) ==
    Cardinality({ e \in UNION { {<<k, i>> : i \in 1..Len(wrs[k].strikes_given)} :
                                k \in 1..Len(wrs) } :
                    wrs[e[1]].strikes_given[e[2]] = c })

\* The week results that list team c in eliminations
\* (eliminated_teams.update(w.eliminations)).
EliminatedIn(wrs, c) ==
    SelectSeq(wrs, LAMBDA wr : \E i \in 1..Len(wr.eliminations) :
                                   wr.eliminations[i] = c)

\* ---- properties ----------------------------------------------------------

NonEliminated(tr) == {c \in DOMAIN tr : tr[c].status # "eliminated"}
Eliminated(tr) == {c \in DOMAIN tr : tr[c].status = "eliminated"}
LastResult(wrs) == wrs[Len(wrs)]
\* A step that processed a week (appended a KORMWeekResult).
WeekStep == Len(week_results') = Len(week_results) + 1
StatusRank(st) == IF st = "active" THEN 0 ELSE IF st = "on_notice" THEN 1 ELSE 2
Finished == pc \in {"winner", "done"}

\* C1: in every week step, active_count_start is the number of teams not
\* eliminated at the start of that week, and strike_mode is "2-strike" iff
\* that number is at least 5 and "1-strike" otherwise.
C1_StrikeModeFromCurrentCount ==
    [][WeekStep =>
         LET wr == LastResult(week_results')
             n == Cardinality(NonEliminated(team_results))
         IN  /\ wr.active_count_start = n
             /\ wr.strike_mode \in {"2-strike", "1-strike"}
             /\ wr.strike_mode = "2-strike" <=> n >= 5]_vars

\* C1 witness: a season with a 2-strike week followed by a 1-strike week.
C1_Witness ==
    \E i, j \in 1..Len(week_results) :
        /\ i < j
        /\ week_results[i].strike_mode = "2-strike"
        /\ week_results[j].strike_mode = "1-strike"

\* C2: in a week step where at least k active teams have a score (k = 2 with
\* five or more active teams, else 1), the teams that receive a strike are
\* exactly the scored active teams whose score is at most the k-th lowest
\* score; each receives one strike with this week and its score, and
\* strikes_given lists each of them once.
C2_StrikesAtOrBelowKthLowest ==
    [][WeekStep =>
         LET sc == weekly_scores[week]
             scored == {c \in NonEliminated(team_results) : c \in DOMAIN sc}
             k == IF Cardinality(NonEliminated(team_results)) >= 5 THEN 2 ELSE 1
             wr == LastResult(week_results')
             given == {wr.strikes_given[i] : i \in 1..Len(wr.strikes_given)}
             struck == {c \in DOMAIN team_results :
                          team_results'[c].strikes # team_results[c].strikes}
         IN  Cardinality(scored) >= k =>
               \E t \in {sc[c] : c \in scored} :
                  /\ Cardinality({c \in scored : sc[c] < t}) < k
                  /\ Cardinality({c \in scored : sc[c] <= t}) >= k
                  /\ struck = {c \in scored : sc[c] <= t}
                  /\ given = struck
                  /\ Len(wr.strikes_given) = Cardinality(struck)
                  /\ (Cardinality({c \in scored : sc[c] <= t}) = k
                        => Cardinality(struck) = k)
                  /\ \A c \in struck :
                        team_results'[c].strikes =
                          Append(team_results[c].strikes,
                                 [week |-> week, score |-> sc[c]])]_vars

\* C2 witness: one 2-strike week struck exactly two of five teams, another
\* struck three because of a tie at the cutoff.
C2_Witness ==
    \E i, j \in 1..Len(week_results) :
        /\ week_results[i].strike_mode = "2-strike"
        /\ Len(week_results[i].scores) = 5
        /\ Len(week_results[i].strikes_given) = 2
        /\ week_results[j].strike_mode = "2-strike"
        /\ Len(week_results[j].scores) = 5
        /\ Len(week_results[j].strikes_given) = 3

\* C3: a team becomes eliminated in exactly the step that gives it its second
\* strike, with elimination_week the week of that strike; an eliminated team
\* has at least two strikes; a first strike makes the team on_notice.
C3_EliminatedAtSecondStrike ==
    [][\A c \in DOMAIN team_results \cap DOMAIN team_results' :
         LET a == team_results[c]
             b == team_results'[c]
             second == Len(a.strikes) < 2 /\ Len(b.strikes) >= 2
         IN  /\ (a.status # "eliminated" /\ b.status = "eliminated") <=> second
             /\ second => /\ Len(b.strikes) = 2
                          /\ b.elimination_week = b.strikes[2].week
                          /\ b.elimination_week = week
             /\ b.status = "eliminated" => Len(b.strikes) >= 2
             /\ (Len(a.strikes) = 0 /\ Len(b.strikes) = 1)
                   => b.status = "on_notice"]_vars

\* C3 witness: a team struck in weeks 1 and 3 is eliminated in week 3 while
\* another team is on notice.
C3_Witness ==
    \E c, d \in DOMAIN team_results :
        /\ team_results[c].status = "eliminated"
        /\ team_results[c].elimination_week = 3
        /\ team_results[c].strikes[1].week = 1
        /\ team_results[d].status = "on_notice"

\* C4: after every week step and in the final result, a team is eliminated
\* iff it has at least 2 strikes, on_notice iff exactly 1, active iff 0, and
\* elimination_week is set iff it is eliminated.
C4_StatusMatchesStrikes ==
    pc \in {"loop", "standings", "winner", "done"} =>
        \A c \in DOMAIN team_results :
            LET r == team_results[c]
            IN  /\ r.status \in {"active", "on_notice", "eliminated"}
                /\ r.status = "eliminated" <=> Len(r.strikes) >= 2
                /\ r.status = "on_notice" <=> Len(r.strikes) = 1
                /\ r.status = "active" <=> Len(r.strikes) = 0
                /\ r.elimination_week # NoneVal <=> r.status = "eliminated"

\* C4 witness: a final result with an active, an on_notice and an eliminated
\* team.
C4_Witness ==
    /\ pc = "done"
    /\ \E a, b, c \in DOMAIN team_results :
          /\ team_results[a].status = "active"
          /\ team_results[b].status = "on_notice"
          /\ team_results[c].status = "eliminated"

\* C5: no step moves a team's status backwards along
\* active -> on_notice -> eliminated.
C5_StatusNeverRegresses ==
    [][\A c \in DOMAIN team_results \cap DOMAIN team_results' :
         StatusRank(team_results'[c].status)
            >= StatusRank(team_results[c].status)]_vars

\* C5 witness: a team put on notice in week 1 is still on notice after a
\* later week in which it was not struck, and another team is eliminated.
C5_Witness ==
    /\ Len(week_results) >= 2
    /\ \E c, d \in DOMAIN team_results :
          /\ team_results[c].status = "on_notice"
          /\ team_results[c].strikes[1].week = 1
          /\ team_results[d].status = "eliminated"

\* Week of the last KORMWeekResult (the week before the window if none).
LastWeek ==
    IF week_results = <<>> THEN StartWeek - 1 ELSE LastResult(week_results).week

\* C6: if at the start of some week of the window at most one team is left,
\* the season stops there with ended_early = True, whether or not that week
\* has score data.  In the returned result: at most one team left and a week
\* of the window after the last processed one means ended_early.
C6_StopsWheneverOneLeft ==
    (/\ pc = "done"
     /\ Cardinality(NonEliminated(team_results)) <= 1
     /\ LastWeek < EndWeek)
        => ended_early = TRUE

\* C7: a result with ended_early = True is a last-team-standing finish:
\* exactly one team is not eliminated, and it is the winner.
C7_EndedEarlyMeansLastTeamStanding ==
    (pc = "done" /\ ended_early = TRUE)
        => /\ Cardinality(NonEliminated(team_results)) = 1
           /\ winner \in NonEliminated(team_results)

\* C8: in the final standings every non-eliminated team is placed strictly
\* before every eliminated team.
C8_SurvivorsAboveEliminated ==
    Finished =>
        \A x \in NonEliminated(team_results), y \in Eliminated(team_results) :
            team_results[x].final_place < team_results[y].final_place

\* C8 witness: a survivor with strictly fewer total points than an
\* eliminated team.
C8_Witness ==
    /\ pc = "done"
    /\ \E x \in NonEliminated(team_results), y \in Eliminated(team_results) :
          TotalPoints(weekly_scores, x) < TotalPoints(weekly_scores, y)

\* C9: among non-eliminated teams fewer strikes, or equal strikes and
\* strictly more total points, means a smaller final_place; among eliminated
\* teams a later elimination_week, or the same week and strictly more total
\* points, means a smaller final_place.
C9_OrderWithinTiers ==
    Finished =>
        /\ \A a, b \in NonEliminated(team_results) :
              (\/ Len(team_results[a].strikes) < Len(team_results[b].strikes)
               \/ /\ Len(team_results[a].strikes) = Len(team_results[b].strikes)
                  /\ TotalPoints(weekly_scores, a) > TotalPoints(weekly_scores, b))
                 => team_results[a].final_place < team_results[b].final_place
        /\ \A a, b \in Eliminated(team_results) :
              (\/ team_results[a].elimination_week > team_results[b].elimination_week
               \/ /\ team_results[a].elimination_week = team_results[b].elimination_week
                  /\ TotalPoints(weekly_scores, a) > TotalPoints(weekly_scores, b))
                 => team_results[a].final_place < team_results[b].final_place

\* C9 witness: in a season with an eliminated team, two survivors with the
\* same strike count are placed by their points, against the roster order.
C9_Witness ==
    /\ pc = "done"
    /\ Eliminated(team_results) # {}
    /\ \E a, b \in NonEliminated(team_results) :
          /\ a > b
          /\ Len(team_results[a].strikes) = Len(team_results[b].strikes)
          /\ TotalPoints(weekly_scores, a) > TotalPoints(weekly_scores, b)
          /\ team_results[a].final_place < team_results[b].final_place

\* C10: after the season every roster team has a final_place and the places
\* are exactly 1..N, each used once.
C10_PlacesAreOneToN ==
    Finished =>
        /\ DOMAIN team_results = {teams[i] : i \in 1..Len(teams)}
        /\ \A c \in DOMAIN team_results : team_results[c].final_place # NoneVal
        /\ {team_results[c].final_place : c \in DOMAIN team_results}
              = 1..Len(teams)
        /\ \A c, d \in DOMAIN team_results :
              team_results[c].final_place = team_results[d].final_place => c = d

\* C10 witness: five teams, some eliminated and some not, all placed.
C10_Witness ==
    /\ pc = "done"
    /\ Len(teams) = 5
    /\ Cardinality(Eliminated(team_results)) = 2
    /\ Cardinality(NonEliminated(team_results)) = 3

\* C11: a returned result of a season with a non-empty week-1 roster has a
\* winner, and the winner is the one team whose final_place is 1.
C11_WinnerIsPlaceOne ==
    (pc = "done" /\ teams # <<>>) =>
        /\ winner # NoneVal
        /\ winner \in DOMAIN team_results
        /\ team_results[winner].final_place = 1
        /\ \A c \in DOMAIN team_results :
              team_results[c].final_place = 1 => c = winner

\* C11 witness: every team was eliminated and the winner is not the first
\* team of the roster.
C11_Witness ==
    /\ pc = "done"
    /\ Len(teams) >= 3
    /\ NonEliminated(team_results) = {}
    /\ winner # NoneVal
    /\ winner # teams[1]

\* C12: with no week-1 entry in the score data the only step is the one that
\* raises the error, taken from the start, and it creates no team state, no
\* week result and no season result.
C12_NoWeekOneIsFatal ==
    [][1 \notin DOMAIN weekly_scores =>
         /\ pc = "start"
         /\ pc' = "error"
         /\ teams' = <<>>
         /\ team_results' = <<>>
         /\ week_results' = <<>>
         /\ week' = NoneVal
         /\ winner' = NoneVal
         /\ ended_early' = FALSE]_vars

\* C12 witness: the error was raised for score data that has later weeks
\* but not week 1.
C12_Witness ==
    /\ pc = "error"
    /\ DOMAIN weekly_scores # {}
    /\ 1 \notin DOMAIN weekly_scores

\* C13: a step of the loop at a week without score data appends no week
\* result, changes no team result and goes on to the next week of the
\* window; a step at a week with data and more than one team left processes
\* that week from the team results as they stand.
C13_MissingWeekSkipped ==
    [][pc = "loop" =>
         /\ week \notin DOMAIN weekly_scores =>
               /\ week_results' = week_results
               /\ team_results' = team_results
               /\ ended_early' = ended_early
               /\ week' = week + 1
               /\ pc' = (IF week < EndWeek THEN "loop" ELSE "standings")
         /\ (week \in DOMAIN weekly_scores /\ ActiveCount(team_results) > 1) =>
               /\ WeekStep
               /\ LastResult(week_results').week = week
               /\ LastResult(week_results').active_count_start
                     = ActiveCount(team_results)
               /\ \A c \in DOMAIN team_results :
                     /\ Len(team_results'[c].strikes) >= Len(team_results[c].strikes)
                     /\ SubSeq(team_results'[c].strikes, 1,
                               Len(team_results[c].strikes))
                           = team_results[c].strikes]_vars

\* C13 witness: week 2 had no data and was skipped; a team struck in week 1
\* was eliminated by its second strike in week 3.
C13_Witness ==
    /\ 2 \notin DOMAIN weekly_scores
    /\ Len(week_results) = 2
    /\ week_results[1].week = 1
    /\ week_results[2].week = 3
    /\ \E c \in DOMAIN team_results :
          /\ team_results[c].status = "eliminated"
          /\ team_results[c].strikes[1].week = 1
          /\ team_results[c].elimination_week = 3

\* C15: a week step leaves every team that was already eliminated as it was,
\* does not count it in active_count_start and lists it neither in
\* strikes_given nor in eliminations nor in scores.
C15_EliminatedNeverReprocessed ==
    [][WeekStep =>
         LET wr == LastResult(week_results')
             out == Eliminated(team_results)
         IN  /\ wr.active_count_start
                   = Cardinality(DOMAIN team_results) - Cardinality(out)
             /\ \A c \in out :
                   /\ team_results'[c] = team_results[c]
                   /\ \A i \in 1..Len(wr.strikes_given) : wr.strikes_given[i] # c
                   /\ \A i \in 1..Len(wr.eliminations) : wr.eliminations[i] # c
                   /\ \A i \in 1..Len(wr.scores) : wr.scores[i].team # c]_vars

\* C15 witness: a week was processed in which a team eliminated earlier had
\* the strictly lowest score of all teams; it still has two strikes.
C15_Witness ==
    \E i \in 1..Len(week_results) :
        \E c \in DOMAIN team_results :
            LET w == week_results[i].week
            IN  /\ team_results[c].status = "eliminated"
                /\ team_results[c].elimination_week < w
                /\ c \in DOMAIN weekly_scores[w]
                /\ \A d \in DOMAIN weekly_scores[w] \ {c} :
                      weekly_scores[w][c] < weekly_scores[w][d]
                /\ Len(team_results[c].strikes) = 2
                /\ Len(week_results[i].strikes_given) >= 1

\* C16: running _assign_final_standings again on the team results it has
\* ranked, with the same score data and year, changes no final_place and no
\* payout (and nothing else).
C16_StandingsIdempotent ==
    Finished =>
        LET again == assign_final_standings(team_results, teams,
                                            weekly_scores, year)
        IN  /\ \A c \in DOMAIN team_results :
                  /\ again[c].final_place = team_results[c].final_place
                  /\ again[c].payout = team_results[c].payout
            /\ again = team_results

\* C16 witness: ranked results with survivors and eliminated teams, some
\* with a payout and some without.
C16_Witness ==
    /\ pc = "done"
    /\ Eliminated(team_results) # {}
    /\ NonEliminated(team_results) # {}
    /\ \E c, d \in DOMAIN team_results :
          /\ team_results[c].payout > 0
          /\ team_results[d].payout = 0

\* C14: in a week step a non-eliminated team without a score that week keeps
\* its record (no strike) and is not in the week result's scores list, yet
\* active_count_start counts it, and the strike mode is "2-strike" iff that
\* count is at least 5.
C14_AbsentTeamCountsTowardMode ==
    [][WeekStep =>
         LET wr == LastResult(week_results')
             live == NonEliminated(team_results)
             absent == live \ DOMAIN weekly_scores[week]
         IN  /\ wr.active_count_start = Cardinality(live)
             /\ wr.strike_mode = "2-strike" <=> Cardinality(live) >= 5
             /\ Len(wr.scores) = Cardinality(live) - Cardinality(absent)
             /\ \A c \in absent :
                   /\ team_results'[c] = team_results[c]
                   /\ \A i \in 1..Len(wr.scores) : wr.scores[i].team # c
                   /\ \A i \in 1..Len(wr.strikes_given) :
                         wr.strikes_given[i] # c]_vars

\* C14 witness: a week with five active teams of which four have a score
\* was processed in 2-strike mode and struck two teams.
C14_Witness ==
    \E i \in 1..Len(week_results) :
        /\ week_results[i].active_count_start = 5
        /\ Len(week_results[i].scores) = 4
        /\ week_results[i].strike_mode = "2-strike"
        /\ Len(week_results[i].strikes_given) = 2

\* C19: once the roster is read, the keys of team_results are the team
\* codes of the week-1 score set for the rest of the call, and only those
\* codes occur in teams and in any week result; a code that first appears in
\* a later week has no team result, hence no strike and no final_place.
C19_RosterFixedAtWeekOne ==
    pc \in {"loop", "standings", "winner", "done"} =>
        LET roster == DOMAIN weekly_scores[1]
        IN  /\ DOMAIN team_results = roster
            /\ {teams[i] : i \in 1..Len(teams)} = roster
            /\ Len(teams) = Cardinality(roster)
            /\ \A c \in roster : team_results[c].team_code = c
            /\ \A i \in 1..Len(week_results) :
                  LET wr == week_results[i]
                  IN  /\ \A j \in 1..Len(wr.scores) : wr.scores[j].team \in roster
                      /\ \A j \in 1..Len(wr.strikes_given) :
                            wr.strikes_given[j] \in roster
                      /\ \A j \in 1..Len(wr.eliminations) :
                            wr.eliminations[j] \in roster

\* C19 witness: a returned result of a season in which a code that week 1
\* does not have had the strictly lowest score of a processed later week.
C19_Witness ==
    /\ pc = "done"
    /\ \E i \in 1..Len(week_results) :
          LET w == week_results[i].week
              sc == weekly_scores[w]
          IN  \E x \in DOMAIN sc \ DOMAIN weekly_scores[1] :
                  /\ \A c \in DOMAIN sc \ {x} : sc[x] < sc[c]
                  /\ Len(week_results[i].strikes_given) >= 1

\* The result a frame holds once its call has returned.
ResultOf(f) ==
    KORMSeasonResult(f.year, f.teams, f.week_results, f.team_results,
                     f.winner, f.ended_early)

\* A frame whose call is over holds what the call gives when it runs alone.
AsRunAlone(f) ==
    /\ f.pc = "done" =>
          /\ 1 \in DOMAIN f.weekly_scores
          /\ ResultOf(f) = process_korm_season(f.year, f.weekly_scores)
    /\ f.pc = "error" =>
          /\ 1 \notin DOMAIN f.weekly_scores
          /\ f.team_results = <<>>
          /\ f.week_results = <<>>

\* C18: with the steps of two calls for different seasons interleaved in any
\* order, a step either hands over to the other call or leaves the frame of
\* the other call as it is, and each call that is over holds exactly the
\* result it gives when run alone.
C18_InterleavedRunsAreIsolated ==
    /\ [][\/ (peer' = Frame /\ Frame' = peer)
          \/ peer' = peer]_vars
    /\ [](AsRunAlone(Frame) /\ AsRunAlone(peer))

\* C18 witness: both calls are inside their loops at once, each has
\* processed its week 1 and has a second week of data to process, and their
\* team results differ.
C18_Witness ==
    /\ pc = "loop"
    /\ peer.pc = "loop"
    /\ week = 2
    /\ peer.week = 2
    /\ Len(week_results) = 1
    /\ Len(peer.week_results) = 1
    /\ 2 \in DOMAIN weekly_scores
    /\ 2 \in DOMAIN peer.weekly_scores
    /\ \E c \in DOMAIN team_results : team_results[c].status = "on_notice"
    /\ \E c \in DOMAIN team_results : team_results[c].status = "active"
    /\ \E c \in DOMAIN peer.team_results :
          peer.team_results[c].status = "on_notice"
    /\ team_results # peer.team_results

\* C17: the document of generate_korm_json loses nothing of the result: two
\* results with the same document are the same result, strike histories
\* (week and score of every strike) and week results included.
C17_JsonDeterminesResult ==
    (/\ pc = "saved"
     /\ peer.pc = "saved"
     /\ document = peer.document)
        => /\ team_results = peer.team_results
           /\ week_results = peer.week_results
           /\ ResultOf(Frame) = ResultOf(peer)

\* The (week, team, score) entries of the first n rows of the file; an h2h
\* row has two of them, home before away.
Entries(n) ==
    IF year = 2018
    THEN UNION { { [i |-> 2 * k - 1, week |-> rows[k].week,
                    team |-> rows[k].home_team, score |-> rows[k].home_score],
                   [i |-> 2 * k, week |-> rows[k].week,
                    team |-> rows[k].away_team, score |-> rows[k].away_score] } :
                 k \in 1..n }
    ELSE { [i |-> k, week |-> rows[k].week, team |-> rows[k].team_code,
            score |-> rows[k].team_actual_total] : k \in 1..n }

\* C20: while a loader runs and when it returns, every week key of the
\* mapping is at most max_week (the window end).  The mapping holds exactly
\* what the rows read so far with a week up to max_week give -- their weeks,
\* their teams, and for each team of a week the score of the last such row --
\* so a row with a later week adds no week and no score.
C20_LoadersCapAtWindowEnd ==
    pc \in {"load", "loaded"} =>
        LET kept == { e \in Entries(row - 1) : e.week <= EndWeek }
        IN  /\ \A w \in DOMAIN weekly_scores : w <= EndWeek
            /\ DOMAIN weekly_scores = { e.week : e \in kept }
            /\ \A w \in DOMAIN weekly_scores :
                  /\ DOMAIN weekly_scores[w]
                        = { e.team : e \in { x \in kept : x.week = w } }
                  /\ \A c \in DOMAIN weekly_scores[w] :
                        \E e \in kept :
                            /\ e.week = w /\ e.team = c
                            /\ e.score = weekly_scores[w][c]
                            /\ \A x \in kept :
                                  (x.week = w /\ x.team = c) => x.i <= e.i

\* C20 witness: a loader returned for a file with a row of the last week of
\* the window, which it kept, and a row of the week after, with another
\* score, which it dropped.
C20_Witness ==
    /\ pc = "loaded"
    /\ Len(rows) = 2
    /\ EndWeek \in DOMAIN weekly_scores
    /\ \E e, x \in Entries(Len(rows)) :
          /\ e.week = EndWeek
          /\ x.week = EndWeek + 1
          /\ x.team = e.team
          /\ x.score # e.score
          /\ weekly_scores[EndWeek][e.team] = e.score

\* C21: in a week step where fewer than k non-eliminated teams have a score
\* (k = 2 with five or more non-eliminated teams, else 1), no strike is given:
\* strikes_given and eliminations are empty and every team result is as it
\* was (strikes, status, elimination_week).
C21_TooFewScoresNoStrike ==
    [][WeekStep =>
         LET live == NonEliminated(team_results)
             scored == live \cap DOMAIN weekly_scores[week]
             k == IF Cardinality(live) >= 5 THEN 2 ELSE 1
             wr == LastResult(week_results')
         IN  Cardinality(scored) < k =>
               /\ wr.strikes_given = <<>>
               /\ wr.eliminations = <<>>
               /\ wr.active_count_end = wr.active_count_start
               /\ \A c \in DOMAIN team_results :
                     /\ team_results'[c].strikes = team_results[c].strikes
                     /\ team_results'[c].status = team_results[c].status
                     /\ team_results'[c].elimination_week
                           = team_results[c].elimination_week]_vars

\* C21 witness: week 2 with five non-eliminated teams, of which one alone
\* has a score, was processed in 2-strike mode; nobody was struck, and the
\* team with the only (hence lowest) score keeps its week-1 strike only.
C21_Witness ==
    /\ Len(week_results) = 2
    /\ week_results[2].strike_mode = "2-strike"
    /\ Len(week_results[2].scores) = 1
    /\ week_results[2].strikes_given = <<>>
    /\ team_results[week_results[2].scores[1].team].status = "on_notice"

\* C22: a team's strikes list only grows at its end: every step keeps the
\* strikes a team already has, at the same positions with the same week and
\* score; and in every state the weeks of a team's strikes are strictly
\* increasing in list order.
C22_StrikesAppendOnly ==
    /\ [][\A c \in DOMAIN team_results \cap DOMAIN team_results' :
             /\ Len(team_results'[c].strikes) >= Len(team_results[c].strikes)
             /\ \A i \in 1..Len(team_results[c].strikes) :
                   team_results'[c].strikes[i] = team_results[c].strikes[i]]_vars
    /\ [](\A c \in DOMAIN team_results :
             \A i, j \in 1..Len(team_results[c].strikes) :
                 i < j => team_results[c].strikes[i].week
                            < team_results[c].strikes[j].week)

\* C22 witness: in the returned result a team has the strikes of weeks 1
\* and 3 in that order, with different scores; it was not struck in week 2.
C22_Witness ==
    /\ pc = "done"
    /\ Len(week_results) = 3
    /\ \E c \in DOMAIN team_results :
          /\ Len(team_results[c].strikes) = 2
          /\ team_results[c].strikes[1].week = 1
          /\ team_results[c].strikes[2].week = 3
          /\ team_results[c].strikes[1].score # team_results[c].strikes[2].score

\* The score of team c in week w of the score data, 0 if the data has no
\* such week or the week has no score of the team.
ScoreIn(w, c) ==
    IF w \in DOMAIN weekly_scores /\ c \in DOMAIN weekly_scores[w]
    THEN weekly_scores[w][c] ELSE 0

\* The sum of ScoreIn(w, c) over the weeks of the window (the score data
\* has no other weeks).
SeasonPoints(c) ==
    LET upto[w \in (StartWeek - 1)..EndWeek] ==
            IF w < StartWeek THEN 0 ELSE upto[w - 1] + ScoreIn(w, c)
    IN  upto[EndWeek]

\* C23: the points that break ties in the standings are a team's scores
\* summed over every week of the score data, processed or not, before or
\* after the team's elimination, a week without the team counting 0: among
\* non-eliminated teams with the same strike count, and among eliminated
\* teams with the same elimination_week, the team with more such points is
\* placed first, and with the same points the earlier team of the roster.
C23_TieBreakBySeasonPoints ==
    Finished =>
        \A a, b \in DOMAIN team_results :
            LET ra == team_results[a]
                rb == team_results[b]
                tied == \/ /\ ra.status # "eliminated"
                            /\ rb.status # "eliminated"
                            /\ Len(ra.strikes) = Len(rb.strikes)
                        \/ /\ ra.status = "eliminated"
                            /\ rb.status = "eliminated"
                            /\ ra.elimination_week = rb.elimination_week
            IN  (tied /\ a # b) =>
                  (ra.final_place < rb.final_place
                     <=> \/ SeasonPoints(a) > SeasonPoints(b)
                         \/ SeasonPoints(a) = SeasonPoints(b) /\ a < b)

\* C23 witness: the season ended early after week 2 with two teams
\* eliminated in the same week; week 3 of the score data was never processed
\* and has a score of the later team of the roster only, which is placed
\* first by its season points.
C23_Witness ==
    /\ pc = "done"
    /\ ended_early = TRUE
    /\ Len(week_results) = 2
    /\ 3 \in DOMAIN weekly_scores
    /\ \E a, b \in Eliminated(team_results) :
          /\ a > b
          /\ team_results[a].elimination_week = 2
          /\ team_results[b].elimination_week = 2
          /\ ScoreIn(1, a) + ScoreIn(2, a) = ScoreIn(1, b) + ScoreIn(2, b)
          /\ a \in DOMAIN weekly_scores[3]
          /\ b \notin DOMAIN weekly_scores[3]
          /\ SeasonPoints(a) > SeasonPoints(b)
          /\ team_results[a].final_place < team_results[b].final_place

\* C24: once the standings are assigned, each team's payout is the amount
\* of its final_place: 320, 120, 40 for the places 1, 2, 3 in 2018 and
\* 800, 300, 100 in any other season, 0 for every place beyond 3.  (Before
\* that no team has a place and every payout is 0.)
C24_PayoutByPlace ==
    \A c \in DOMAIN team_results :
        LET r == team_results[c]
        IN  /\ Finished =>
                  /\ r.final_place = 1 => r.payout = (IF year = 2018 THEN 320 ELSE 800)
                  /\ r.final_place = 2 => r.payout = (IF year = 2018 THEN 120 ELSE 300)
                  /\ r.final_place = 3 => r.payout = (IF year = 2018 THEN 40 ELSE 100)
                  /\ r.final_place > 3 => r.payout = 0
                  /\ r.final_place >= 1
            /\ ~Finished => r.payout = 0 /\ r.final_place = NoneVal

\* C24 witness: a returned 2018 season of at least four teams (so the
\* payouts 320, 120, 40 and 0 are all given) next to a returned season of
\* another year that paid 800.
C24_Witness ==
    /\ pc = "done"
    /\ year = 2018
    /\ Len(teams) >= 4
    /\ {team_results[c].payout : c \in DOMAIN team_results} = {320, 120, 40, 0}
    /\ peer.pc = "done"
    /\ peer.year # 2018
    /\ \E c \in DOMAIN peer.team_results : peer.team_results[c].payout = 800

\* C25: asked with n teams not eliminated, the tracker answers with the
\* strike mode the season processor uses for n non-eliminated teams, that is
\* "2-strike" exactly when n >= 5, and awards 2 strikes in that mode and 1
\* otherwise.
C25_TrackerModeAsProcessor ==
    live_mode # NoAnswer =>
        /\ live_mode.strike_mode = StrikeMode(live_mode.active_count)
        /\ live_mode.strike_mode = "2-strike" <=> live_mode.active_count >= 5
        /\ live_mode.strikes_awarded # NoneVal =>
              live_mode.strikes_awarded = StrikesPerWeek(live_mode.strike_mode)

\* C26: in every week result of the season's history active_count_end is
\* active_count_start minus the number of teams in eliminations, and each
\* week result's active_count_start is the active_count_end of the one
\* before it (the first one starts with the whole roster).
C26_ActiveCountsChain ==
    \A i \in 1..Len(week_results) :
        LET wr == week_results[i]
        IN  /\ wr.active_count_end
                  = wr.active_count_start - Len(wr.eliminations)
            /\ i > 1 => wr.active_count_start
                           = week_results[i - 1].active_count_end
            /\ i = 1 => wr.active_count_start = Len(teams)
            /\ i = Len(week_results) =>
                  wr.active_count_end = Cardinality(NonEliminated(team_results))

\* C26 witness: three week results; the second eliminated at least one team
\* and left teams on notice, the third started with what the second ended
\* with and eliminated again.
C26_Witness ==
    /\ Len(week_results) = 3
    /\ week_results[2].eliminations # <<>>
    /\ week_results[2].active_count_end < week_results[2].active_count_start
    /\ week_results[3].active_count_start = week_results[2].active_count_end
    /\ week_results[3].eliminations # <<>>
    /\ \E c \in DOMAIN team_results : team_results[c].status = "on_notice"

\* C27: in every state of the season a team has at most 2 strikes, and no
\* week result lists a team twice in strikes_given (a team gets at most one
\* strike per week: no two of its strikes have the same week).
C27_AtMostTwoStrikes ==
    /\ \A c \in DOMAIN team_results :
          /\ Len(team_results[c].strikes) <= 2
          /\ \A i, j \in 1..Len(team_results[c].strikes) :
                i # j => team_results[c].strikes[i].week
                           # team_results[c].strikes[j].week
    /\ \A k \in 1..Len(week_results) :
          \A i, j \in 1..Len(week_results[k].strikes_given) :
              i # j => week_results[k].strikes_given[i]
                         # week_results[k].strikes_given[j]

\* C27 witness: a week struck three or more teams at once because of a tie,
\* and a team with two strikes had the lowest score of a week processed
\* after its elimination.
C27_Witness ==
    /\ \E k \in 1..Len(week_results) : Len(week_results[k].strikes_given) >= 3
    /\ \E k \in 1..Len(week_results) :
          \E c \in DOMAIN team_results :
              LET w == week_results[k].week
              IN  /\ Len(team_results[c].strikes) = 2
                  /\ team_results[c].elimination_week < w
                  /\ c \in DOMAIN weekly_scores[w]
                  /\ \A d \in DOMAIN weekly_scores[w] :
                        weekly_scores[w][c] <= weekly_scores[w][d]

\* C28: along the week results of a season, in their order, the
\* active_count_start never increases, and after a week processed in
\* 1-strike mode no later week is processed in 2-strike mode.
C28_ModeOnlyTightens ==
    \A i, j \in 1..Len(week_results) :
        i < j =>
          /\ week_results[j].active_count_start
                <= week_results[i].active_count_start
          /\ week_results[i].strike_mode = "1-strike"
                => week_results[j].strike_mode = "1-strike"

\* C28 witness: three week results of a five-team season: 2-strike mode in
\* weeks 1 and 2, then, with fewer than five teams left, 1-strike mode in
\* week 3.
C28_Witness ==
    /\ Len(week_results) = 3
    /\ week_results[1].active_count_start = 5
    /\ week_results[1].strike_mode = "2-strike"
    /\ week_results[2].active_count_start = 5
    /\ week_results[2].strike_mode = "2-strike"
    /\ week_results[3].active_count_start < 5
    /\ week_results[3].active_count_start > 1
    /\ week_results[3].strike_mode = "1-strike"

\* C29: the week history replays to the team state: a team's strike count
\* is the number of times week results list it in strikes_given, its strike
\* weeks are the weeks of those week results in order, and it is eliminated
\* iff some week result lists it in eliminations; then exactly one does, and
\* its week is the team's elimination_week.
C29_HistoryReplaysToTeamState ==
    pc \in {"loop", "standings", "winner", "done"} =>
        \A c \in DOMAIN team_results :
            LET r == team_results[c]
                hit == StruckIn(week_results, c)
                out == EliminatedIn(week_results, c)
            IN  /\ strike_count(r) = ReplayStrikes(week_results, c)
                /\ strike_weeks(r) = [i \in 1..Len(hit) |-> hit[i].week]
                /\ r.status = "eliminated" <=> out # <<>>
                /\ Len(out) <= 1
                /\ out # <<>> => out[1].week = r.elimination_week
                /\ out = <<>> => r.elimination_week = NoneVal

\* C29 witness: a returned season in which a tie struck three or more teams
\* in one week, a team struck in weeks 1 and 3 but not in week 2 is
\* eliminated, and another team has its only strike from week 2.
C29_Witness ==
    /\ pc = "done"
    /\ \E k \in 1..Len(week_results) : Len(week_results[k].strikes_given) >= 3
    /\ \E c, d \in DOMAIN team_results :
          /\ strike_weeks(team_results[c]) = <<1, 3>>
          /\ team_results[c].status = "eliminated"
          /\ strike_weeks(team_results[d]) = <<2>>

\* C30: a call with week-1 data ends with the standings assigned.  A turn
\* of the loop is for a week of the window and either moves to the next week
\* or leaves the loop, so there are at most end - start + 1 turns; the week
\* results have strictly increasing weeks, all of the window, all with score
\* data and all before the week the loop is at.
C30_SeasonTerminates ==
    /\ [][pc = "loop" =>
             /\ week \in Weeks
             /\ \/ pc' = "loop" /\ week' = week + 1 /\ week' \in Weeks
                \/ pc' = "standings"
             /\ Len(week_results') <= Len(week_results) + 1]_vars
    /\ [](/\ Len(week_results) <= EndWeek - StartWeek + 1
           /\ \A i \in 1..Len(week_results) :
                 /\ week_results[i].week \in Weeks \cap DOMAIN weekly_scores
                 /\ pc = "loop" => week_results[i].week < week
                 /\ \A j \in 1..Len(week_results) :
                       i < j => week_results[i].week < week_results[j].week)
    /\ (1 \in DOMAIN weekly_scores)
          ~> (/\ pc = "done"
              /\ \A c \in DOMAIN team_results :
                    team_results[c].final_place # NoneVal)

\* C30 witness: a call returned after the loop took a turn for every week of
\* the window: a week without data was skipped, the others were processed,
\* and more than one team is left.
C30_Witness ==
    /\ pc = "done"
    /\ ended_early = FALSE
    /\ week = EndWeek + 1
    /\ Len(week_results) = EndWeek - StartWeek
    /\ Cardinality(NonEliminated(team_results)) > 1
    /\ Eliminated(team_results) # {}

====
